---- MODULE Spec2Model ----
(***************************************************************************)
(* Model of rag-qa-system:                                                 *)
(*   ingestion/chunker.py        chunk_text                                *)
(*   ingestion/cleaner.py        clean_text                                *)
(*   vector_store/faiss_index.py build_index, load_index, search_index     *)
(*   retrieval/retriever.py      retrieve_chunks                           *)
(*   retrieval/reranker.py       get_reranker, rerank_chunks               *)
(*   embeddings/embedder.py      get_embedder, embed_texts                 *)
(*   run_pipeline.py             the embed / build / retrieve sequence     *)
(*   app/streamlit_app.py        restore, reset, process, query            *)
(*   evaluation/retrieval_metrics.py  precision_at_k, recall_at_k          *)
(*                                                                         *)
(* A text is modelled after sentence tokenisation: a sequence of           *)
(* sentences, each a non-empty sequence of whitespace tokens.  A token is  *)
(* represented by its position in the source text (1, 2, 3, ...), so the   *)
(* words of the modelled text are pairwise distinct and a statement about  *)
(* token positions implies the same statement about token values.          *)
(***************************************************************************)
EXTENDS Integers, Sequences, FiniteSets, TLC

VARIABLES
    \* ---- chunk_text (ingestion/chunker.py) ----
    sentences,      \* the sentences of the text, in order
    chunk_size,     \* argument chunk_size
    overlap_arg,    \* argument overlap, as passed by the caller
    overlap,        \* overlap after the clamp of line 86
    s_idx,          \* position of the for-loop over sentences (next sentence)
    current,        \* the working buffer `current`
    chunks_tokens,  \* the list `chunks_tokens`
    out,            \* the returned list of chunk dicts
    cpc,            \* "loop" while the for-loop runs, "done" after return
    \* history of chunk_text, read only by the properties
    meta,           \* per entry of chunks_tokens: how the chunk was made
    cur_first,      \* length of the sentence that opened `current` on overflow (0: none)
    carried,        \* tokens of the previous chunk copied into `current` at the last seeding
    seedings,       \* number of seedings (lines 107, 120-122) executed so far
    built,          \* chunks_tokens as it was after line 127, before the filter
    out_meta,       \* per entry of out: meta of the chunk and its index in built
    \* ---- the index and one call on it (faiss_index.py, retriever.py) ----
    index,          \* the index object: [kind, n]; kind "none" is None
    rpc,            \* "idle" between calls, "returned" when a call has ended
    call,           \* the function called last
    query,          \* argument query of retrieve_chunks
    chunks,         \* argument chunks of retrieve_chunks (the caller's list)
    top_k,          \* argument top_k
    dim_ok,         \* whether the query vectors have the index's dimension
    outcome,        \* "return" or "raise" ("none" while idle)
    error,          \* the error raised
    search_ret,     \* the (index, score) slots search_index returned, in order
    results,        \* the list retrieve_chunks returned
    called_embed,   \* the call reached embed_texts
    called_search,  \* the call reached search_index
    \* ---- rerank_chunks and the dicts it works on (reranker.py, retriever.py) ----
    heap,           \* the dict objects: heap[id] is the dict with identity id
    caller_chunks,  \* the caller's chunks list, as the ids of its entries
    initial,        \* the list retrieve_chunks returned (streamlit_app.py:184)
    rr_chunks,      \* argument chunks of rerank_chunks (the candidate list)
    rr_query,       \* argument query
    rr_top_k,       \* argument top_k of rerank_chunks
    scores,         \* what model.predict returned, one score per filtered candidate
    reranked,       \* the list rerank_chunks returned
    rr_pc,          \* "idle", "retrieved" or "reranked"
    \* ---- the lazily loaded models (embedder.py, reranker.py) ----
    cache,          \* the globals _EMBEDDER and _MODEL_CACHE, by getter; 0 is None
    constructed,    \* per getter: how many models have been constructed
    t_pc,           \* per thread: its position in the getter
    t_fn,           \* per thread: the getter it is in
    t_model,        \* per thread: the model it has constructed and not yet assigned
    t_ret,          \* per thread: the handle its call returned
    \* ---- the vectors of the ingestion path (run_pipeline.py, retriever.py) ----
    pl_pc,          \* position in run_pipeline.main and retrieve_chunks
    embeddings,     \* the matrix embed_texts returned for the chunks
    rows,           \* the vectors stored in the index
    q_vec,          \* the query vector
    pl_scores,      \* per row: the score the search returned
    \* ---- clean_text (ingestion/cleaner.py) ----
    cl_in,          \* argument text
    cl_text,        \* the text as transformed so far; the return value at the end
    cl_pc,          \* position in clean_text
    \* ---- the force-split loop of chunk_text (chunker.py:94-103) ----
    sp_tokens,      \* sent_tokens, a sentence longer than chunk_size
    sp_size,        \* chunk_size
    sp_overlap_arg, \* overlap as passed
    sp_overlap,     \* overlap after the clamp of line 86
    sp_stride,      \* stride (line 97)
    sp_j,           \* the loop variable j
    sp_j_before,    \* j at the start of the last iteration (-1: none yet)
    sp_blocks,      \* the blocks appended so far
    sp_pc,          \* "while" in the loop, "exit" after it
    \* ---- the application's saved index (app/streamlit_app.py) ----
    faiss_index_file,   \* storage/faiss.index: the vector count of the saved index
    chunks_json_file,   \* storage/chunks.json: the number of saved chunks
    ss_index,           \* st.session_state.index, as its vector count
    ss_chunks,          \* st.session_state.chunks, as its length
    restored,           \* the pair in session state was loaded from the files
    app_pc,             \* position in the Process block
    \* ---- precision_at_k, recall_at_k (evaluation/retrieval_metrics.py) ----
    m_fn,               \* the function called
    m_retrieved,        \* argument retrieved_ids, a list that may repeat an id
    m_relevant,         \* argument relevant_ids, a set
    m_k,                \* argument k
    m_hits,             \* the local `hits` (0 when the call returns before counting)
    m_ret,              \* the returned quotient as <<numerator, denominator>>
    m_pc                \* "off", "called", "returned"

chunkVars == <<sentences, chunk_size, overlap_arg, overlap, s_idx, current,
               chunks_tokens, out, cpc, meta, cur_first, carried, seedings, built,
               out_meta>>

retrVars == <<index, rpc, call, query, chunks, top_k, dim_ok, outcome, error,
              search_ret, results, called_embed, called_search>>

rerankVars == <<heap, caller_chunks, initial, rr_chunks, rr_query, rr_top_k, scores,
                reranked, rr_pc>>

loaderVars == <<cache, constructed, t_pc, t_fn, t_model, t_ret>>

pipelineVars == <<pl_pc, embeddings, rows, q_vec, pl_scores>>

cleanVars == <<cl_in, cl_text, cl_pc>>

metricVars == <<m_fn, m_retrieved, m_relevant, m_k, m_hits, m_ret, m_pc>>

auxVars == <<rerankVars, loaderVars, pipelineVars, cleanVars, metricVars>>

splitVars == <<sp_tokens, sp_size, sp_overlap_arg, sp_overlap, sp_stride, sp_j,
               sp_j_before, sp_blocks, sp_pc>>

appVars == <<faiss_index_file, chunks_json_file, ss_index, ss_chunks, restored, app_pc>>

vars == <<chunkVars, retrVars, auxVars, splitVars, appVars>>

\* ---------------------------------------------------------------- bounds
MaxSents == 3
MaxSentLen == 6
MaxChunkSize == 5
MaxOverlap == 5
MaxN == 3
MaxScore == 1

\* ------------------------------------------------------- program constants
MIN_TOKENS == 5

\* ---------------------------------------------------------------- helpers
Min(a, b) == IF a <= b THEN a ELSE b
Max(a, b) == IF a >= b THEN a ELSE b

RECURSIVE SumLens(_)
SumLens(lens) ==
    IF lens = <<>> THEN 0 ELSE Head(lens) + SumLens(Tail(lens))

\* The sentences of a text whose sentence lengths are `lens`: sentence k holds
\* the source positions that follow those of sentences 1..k-1.
SentencesOf(lens) ==
    [k \in 1..Len(lens) |->
        LET base == SumLens(SubSeq(lens, 1, k - 1))
        IN  [p \in 1..lens[k] |-> base + p]]

RECURSIVE SeqsUpTo(_, _)
SeqsUpTo(S, n) ==
    IF n = 0 THEN {<<>>}
    ELSE LET shorter == SeqsUpTo(S, n - 1)
         IN  shorter \cup {Append(q, x) : q \in {r \in shorter : Len(r) = n - 1}, x \in S}

\* Python's lst[-m:] for 0 <= m <= len(lst): the last m elements, except that
\* -0 is 0, so lst[-0:] is lst[0:], the whole list.
PyNegSlice(lst, m) ==
    IF m = 0 THEN lst ELSE SubSeq(lst, Len(lst) - m + 1, Len(lst))

ClampOverlapNoUpper(ov, size) == Max(0, ov)

\* line 86: overlap = max(0, min(overlap, max(0, chunk_size - 1)))
ClampOverlap(ov, size) == Max(0, Min(ov, Max(0, size - 1)))

\* lines 79-83: finalize_current appends a copy of a non-empty buffer
FinalizeCurrent(toks, cur) ==
    IF cur # <<>> THEN Append(toks, cur) ELSE toks

FinalizeMeta(m, cur, first) ==
    IF cur # <<>> THEN Append(m, [kind |-> "greedy", first |-> first]) ELSE m

\* line 97: stride = max(1, chunk_size - overlap)
Stride(size, ov) == Max(1, size - ov)

\* lines 98-103: the blocks of an oversized sentence, from offset j on
RECURSIVE Blocks(_, _, _, _)
Blocks(sent_tokens, j, size, stride) ==
    IF j < Len(sent_tokens)
    THEN <<SubSeq(sent_tokens, j + 1, Min(j + size, Len(sent_tokens)))>>
         \o Blocks(sent_tokens, j + stride, size, stride)
    ELSE <<>>

\* line 115: prev_tail = current[-min(overlap, len(current)):] if current else []
PrevTail(cur, ov) ==
    IF cur # <<>> THEN PyNegSlice(cur, Min(ov, Len(cur))) ELSE <<>>

EffectiveOverlapNoFit(prev_tail, size, sent_len) == Len(prev_tail)

\* line 118: effective_overlap = min(len(prev_tail), max(0, chunk_size - len(sent_tokens)))
EffectiveOverlap(prev_tail, size, sent_len) ==
    Min(Len(prev_tail), Max(0, size - sent_len))

OverflowSeedHead(prev_tail, eff) ==
    IF eff > 0 THEN SubSeq(prev_tail, 1, eff) ELSE <<>>

\* lines 119-122: the seed of the new buffer
OverflowSeed(prev_tail, eff) ==
    IF eff > 0 THEN SubSeq(prev_tail, Len(prev_tail) - eff + 1, Len(prev_tail)) ELSE <<>>

\* no index has been built or loaded and no call has been made
NoIndexNoCall ==
    /\ index = [kind |-> "none", n |-> 0]
    /\ rpc = "idle"
    /\ call = "none"
    /\ query = <<>>
    /\ chunks = <<>>
    /\ top_k = 0
    /\ dim_ok = TRUE
    /\ outcome = "none"
    /\ error = "none"
    /\ search_ret = <<>>
    /\ results = <<>>
    /\ called_embed = FALSE
    /\ called_search = FALSE

\* the chunker is not running
ChunkerIdle ==
    /\ sentences = <<>>
    /\ chunk_size = 1
    /\ overlap_arg = 0
    /\ overlap = 0
    /\ s_idx = 1
    /\ current = <<>>
    /\ chunks_tokens = <<>>
    /\ out = <<>>
    /\ cpc = "done"
    /\ meta = <<>>
    /\ cur_first = 0
    /\ carried = 0
    /\ seedings = 0
    /\ built = <<>>
    /\ out_meta = <<>>

\* no dict exists and rerank_chunks has not been called
RerankIdle ==
    /\ heap = <<>>
    /\ caller_chunks = <<>>
    /\ initial = <<>>
    /\ rr_chunks = <<>>
    /\ rr_query = <<>>
    /\ rr_top_k = 0
    /\ scores = <<>>
    /\ reranked = <<>>
    /\ rr_pc = "idle"

\* no thread is running and nothing has been loaded
LoaderIdle ==
    /\ cache = <<>>
    /\ constructed = <<>>
    /\ t_pc = <<>>
    /\ t_fn = <<>>
    /\ t_model = <<>>
    /\ t_ret = <<>>

\* the pipeline has not been started
PipelineIdle ==
    /\ pl_pc = "off"
    /\ embeddings = <<>>
    /\ rows = <<>>
    /\ q_vec = <<>>
    /\ pl_scores = <<>>

\* clean_text has not been called
CleanIdle ==
    /\ cl_in = <<>>
    /\ cl_text = <<>>
    /\ cl_pc = "off"

\* neither metric has been called
MetricsIdle ==
    /\ m_fn = "none"
    /\ m_retrieved = <<>>
    /\ m_relevant = {}
    /\ m_k = 0
    /\ m_hits = 0
    /\ m_ret = <<0, 1>>
    /\ m_pc = "off"

AuxIdle == RerankIdle /\ LoaderIdle /\ PipelineIdle /\ CleanIdle /\ MetricsIdle

\* the application is not running and has saved nothing
AppIdle ==
    /\ faiss_index_file = 0
    /\ chunks_json_file = 0
    /\ ss_index = 0
    /\ ss_chunks = 0
    /\ restored = FALSE
    /\ app_pc = "off"

\* the force-split loop is not being stepped through
SplitIdle ==
    /\ sp_tokens = <<>>
    /\ sp_size = 1
    /\ sp_overlap_arg = 0
    /\ sp_overlap = 0
    /\ sp_stride = 1
    /\ sp_j = 0
    /\ sp_j_before = -1
    /\ sp_blocks = <<>>
    /\ sp_pc = "off"

\* ------------------------------------------------------------ chunk_text
\* lines 66-86: the call, up to the start of the loop.  An empty `sentences`
\* is a blank text (lines 66-67); lines 72-74 make any other text at least
\* one sentence.
ChunkInit ==
    /\ \E lens \in SeqsUpTo(1..MaxSentLen, MaxSents) : sentences = SentencesOf(lens)
    /\ chunk_size \in 1..MaxChunkSize
    /\ overlap_arg \in -1..MaxOverlap
    /\ overlap = ClampOverlap(overlap_arg, chunk_size)
    /\ s_idx = 1
    /\ current = <<>>
    /\ chunks_tokens = <<>>
    /\ out = <<>>
    /\ cpc = "loop"
    /\ meta = <<>>
    /\ cur_first = 0
    /\ carried = 0
    /\ seedings = 0
    /\ built = <<>>
    /\ out_meta = <<>>
    /\ NoIndexNoCall
    /\ AuxIdle
    /\ SplitIdle
    /\ AppIdle

\* lines 94-108: a sentence longer than chunk_size is split into blocks
ForceSplit ==
    /\ cpc = "loop"
    /\ s_idx <= Len(sentences)
    /\ LET sent_tokens == sentences[s_idx]
           flushed == FinalizeCurrent(chunks_tokens, current)
           blocks == Blocks(sent_tokens, 0, chunk_size, Stride(chunk_size, overlap))
           all == flushed \o blocks
           last == all[Len(all)]
       IN  /\ Len(sent_tokens) > chunk_size
           /\ chunks_tokens' = all
           /\ meta' = FinalizeMeta(meta, current, cur_first)
                      \o [b \in 1..Len(blocks) |-> [kind |-> "block", first |-> 0]]
           /\ current' = PyNegSlice(last, Min(overlap, Len(last)))
           /\ carried' = Len(current')
    /\ cur_first' = 0
    /\ seedings' = seedings + 1
    /\ s_idx' = s_idx + 1
    /\ UNCHANGED <<sentences, chunk_size, overlap_arg, overlap, out, cpc, built,
                   out_meta>>
    /\ UNCHANGED <<retrVars, auxVars, splitVars, appVars>>

\* lines 111-112: the sentence fits into the buffer
Extend ==
    /\ cpc = "loop"
    /\ s_idx <= Len(sentences)
    /\ LET sent_tokens == sentences[s_idx]
       IN  /\ Len(sent_tokens) <= chunk_size
           /\ Len(current) + Len(sent_tokens) <= chunk_size
           /\ current' = current \o sent_tokens
    /\ s_idx' = s_idx + 1
    /\ UNCHANGED <<sentences, chunk_size, overlap_arg, overlap, chunks_tokens, out,
                   cpc, meta, cur_first, carried, seedings, built, out_meta>>
    /\ UNCHANGED <<retrVars, auxVars, splitVars, appVars>>

\* lines 113-124: the sentence does not fit; finalize, seed, add the sentence
Overflow ==
    /\ cpc = "loop"
    /\ s_idx <= Len(sentences)
    /\ LET sent_tokens == sentences[s_idx]
           prev_tail == PrevTail(current, overlap)
           effective_overlap == EffectiveOverlap(prev_tail, chunk_size, Len(sent_tokens))
           seed == OverflowSeed(prev_tail, effective_overlap)
       IN  /\ Len(sent_tokens) <= chunk_size
           /\ Len(current) + Len(sent_tokens) > chunk_size
           /\ chunks_tokens' = FinalizeCurrent(chunks_tokens, current)
           /\ meta' = FinalizeMeta(meta, current, cur_first)
           /\ current' = seed \o sent_tokens
           /\ carried' = Len(seed)
           /\ cur_first' = Len(sent_tokens)
    /\ seedings' = seedings + 1
    /\ s_idx' = s_idx + 1
    /\ UNCHANGED <<sentences, chunk_size, overlap_arg, overlap, out, cpc, built,
                   out_meta>>
    /\ UNCHANGED <<retrVars, auxVars, splitVars, appVars>>

IndicesKeepAll(toks) == 1..Len(toks)

IndicesNoGuard(toks) ==
    {i \in 1..Len(toks) : Len(toks[i]) >= MIN_TOKENS}

\* lines 131-134: chunks under MIN_TOKENS are dropped when there are several
Indices(toks) ==
    IF Len(toks) > 1
    THEN {i \in 1..Len(toks) : Len(toks[i]) >= MIN_TOKENS}
    ELSE 1..Len(toks)

\* the k-th smallest element of a finite set of numbers
RECURSIVE Kth(_, _)
Kth(S, k) ==
    LET m == CHOOSE x \in S : \A y \in S : x <= y
    IN  IF k = 1 THEN m ELSE Kth(S \ {m}, k - 1)

\* lines 136-150: the chunk dicts; chunk_id is <document_id>_<i>, i from 0
Materialize(toks, keep) ==
    [i \in 1..Cardinality(keep) |->
        [chunk_id |-> <<"doc", i - 1>>,
         document_id |-> "doc",
         text |-> toks[Kth(keep, i)]]]

\* lines 126-150: after the loop
Finish ==
    /\ cpc = "loop"
    /\ s_idx > Len(sentences)
    /\ LET final == FinalizeCurrent(chunks_tokens, current)
           fmeta == FinalizeMeta(meta, current, cur_first)
           keep == Indices(final)
       IN  /\ built' = final
           /\ chunks_tokens' = [i \in 1..Cardinality(keep) |-> final[Kth(keep, i)]]
           /\ meta' = fmeta
           /\ out' = Materialize(final, keep)
           /\ out_meta' = [i \in 1..Cardinality(keep) |->
                             [kind |-> fmeta[Kth(keep, i)].kind,
                              first |-> fmeta[Kth(keep, i)].first,
                              pre |-> Kth(keep, i)]]
    /\ current' = <<>>
    /\ cpc' = "done"
    /\ UNCHANGED <<sentences, chunk_size, overlap_arg, overlap, s_idx, cur_first,
                   carried, seedings>>
    /\ UNCHANGED <<retrVars, auxVars, splitVars, appVars>>

ChunkNext == ForceSplit \/ Extend \/ Overflow \/ Finish

SpecChunk == ChunkInit /\ [][ChunkNext]_vars

\* chunk_text on fewer and longer sentences with larger chunk sizes, so that a
\* force-split block short of chunk_size still has MIN_TOKENS tokens
MaxLongSents == 2
MaxLongSentLen == 7
MaxLongChunkSize == 6

ChunkLongInit ==
    /\ \E lens \in SeqsUpTo(1..MaxLongSentLen, MaxLongSents) : sentences = SentencesOf(lens)
    /\ chunk_size \in 1..MaxLongChunkSize
    /\ overlap_arg \in -1..MaxLongChunkSize
    /\ overlap = ClampOverlap(overlap_arg, chunk_size)
    /\ s_idx = 1
    /\ current = <<>>
    /\ chunks_tokens = <<>>
    /\ out = <<>>
    /\ cpc = "loop"
    /\ meta = <<>>
    /\ cur_first = 0
    /\ carried = 0
    /\ seedings = 0
    /\ built = <<>>
    /\ out_meta = <<>>
    /\ NoIndexNoCall
    /\ AuxIdle
    /\ SplitIdle
    /\ AppIdle

SpecChunkLong == ChunkLongInit /\ [][ChunkNext]_vars

\* ------------------------------------------------ the index and retrieval
\* The i-th chunk dict of an ingestion run: {"chunk_id", "document_id", "text"}
Chunk(i) == [chunk_id |-> <<"doc", i - 1>>, document_id |-> "doc", text |-> <<i>>]

Range(q) == {q[i] : i \in 1..Len(q)}

\* the sequences of m pairwise distinct elements of S
RECURSIVE InjSeqs(_, _)
InjSeqs(S, m) ==
    IF m = 0 THEN {<<>>}
    ELSE UNION {{Append(q, x) : x \in S \ Range(q)} : q \in InjSeqs(S, m - 1)}

\* the chunk lists a caller may pass: any list of distinct chunks
ChunkLists ==
    {[i \in 1..Len(q) |-> Chunk(q[i])] :
        q \in UNION {InjSeqs(1..MaxN, m) : m \in 0..MaxN}}

\* The list whose embeddings, in order, are the rows of the index: row i of
\* an index of n vectors is the embedding of Chunk(i + 1) (run_pipeline.py:33-37).
IndexedChunks(ix) == [i \in 1..ix.n |-> Chunk(i)]

\* the queries: empty, whitespace only, and with content
Queries == {<<>>, <<" ">>, <<" ", " ">>, <<" ", "a">>}

TopKs == -1..(MaxN + 1)

RECURSIVE LStrip(_)
LStrip(q) == IF q # <<>> /\ Head(q) = " " THEN LStrip(Tail(q)) ELSE q

RECURSIVE RStrip(_)
RStrip(q) ==
    IF q # <<>> /\ q[Len(q)] = " " THEN RStrip(SubSeq(q, 1, Len(q) - 1)) ELSE q

\* str.strip()
Strip(q) == RStrip(LStrip(q))

IsBlankNoStrip(q) == q = <<>>

\* retriever.py:62: not query or not query.strip()
IsBlank(q) == q = <<>> \/ Strip(q) = <<>>

\* An index of kind "flat" is a faiss.IndexFlatIP (built by build_index or
\* read by load_index) and exposes ntotal; one of kind "opaque" is an index
\* object without the attribute ntotal, for which both getattr calls take
\* their default.
HasNtotal(ix) == ix.kind = "flat"

CountMismatchOnlyFewer(ix, chs) == HasNtotal(ix) /\ ix.n < Len(chs)

\* retriever.py:66-67: ntotal is not None and ntotal != len(chunks)
CountMismatch(ix, chs) == HasNtotal(ix) /\ ix.n # Len(chs)

\* faiss_index.py:140-141: k = min(top_k, ntotal) if ntotal > 0 else top_k
SearchK(ix, tk) ==
    LET ntotal == IF HasNtotal(ix) THEN ix.n ELSE 0
    IN  IF ntotal > 0 THEN Min(tk, ntotal) ELSE tk

\* the slot faiss fills in when it has no further neighbour: index -1
Sentinel == [idx |-> -1, score |-> -1]

Slots(sims, ord) ==
    [p \in 1..Len(ord) |-> [idx |-> ord[p] - 1, score |-> sims[ord[p]]]]

Pad(slots, k) == slots \o [p \in 1..(k - Len(slots)) |-> Sentinel]

\* sims[r] is the inner product of the query with row r; ord lists the rows
\* returned.  An exact search returns the best rows, best first.
ExactOrder(sims, ord, n) ==
    /\ \A p \in 1..(Len(ord) - 1) : sims[ord[p]] >= sims[ord[p + 1]]
    /\ \A r \in (1..n) \ Range(ord) : \A p \in 1..Len(ord) : sims[r] <= sims[ord[p]]

\* faiss_index.py:143: what index.search(q, k) can return, k >= 1: min(k, n)
\* rows and then sentinels.  The rows of a flat index are the best ones in
\* descending score, equal scores in any order; an opaque index returns rows
\* in any order.
IndexSearch(ix, k) ==
    LET n == ix.n
        m == Min(k, n)
        cands == {<<sims, ord>> : sims \in [1..n -> 0..MaxScore], ord \in InjSeqs(1..n, m)}
    IN  {Pad(Slots(c[1], c[2]), k) :
            c \in {c \in cands : ix.kind = "opaque" \/ ExactOrder(c[1], c[2], n)}}

\* faiss_index.py:121-144: search_index, for non-empty 2D query embeddings
SearchIndexOutcomes(ix, tk, dimok) ==
    IF ix.kind = "none"
    THEN {[outcome |-> "raise", error |-> "index_none", slots |-> <<>>]}
    ELSE IF tk <= 0
    THEN {[outcome |-> "raise", error |-> "top_k", slots |-> <<>>]}
    ELSE IF ~dimok
    THEN {[outcome |-> "raise", error |-> "dim", slots |-> <<>>]}
    ELSE {[outcome |-> "return", error |-> "none", slots |-> r] :
            r \in IndexSearch(ix, SearchK(ix, tk))}

ValidIdxFromOne(idx, len) == ~(idx <= 0 \/ idx >= len)

\* retriever.py:84: not (idx is None or idx < 0 or idx >= len(chunks))
ValidIdx(idx, len) == ~(idx < 0 \/ idx >= len)

\* retriever.py:86-87: a copy of the chunk dict with the score added
Item(c, score) ==
    [chunk_id |-> c.chunk_id, document_id |-> c.document_id, text |-> c.text,
     score |-> score]

\* retriever.py:82-88: the items of the valid slots, in slot order
MapSlots(slots, chs) ==
    LET valid == SelectSeq(slots, LAMBDA sl : ValidIdx(sl.idx, Len(chs)))
    IN  [p \in 1..Len(valid) |-> Item(chs[valid[p].idx + 1], valid[p].score)]

InsertDescBeforeTies(sorted, x) ==
    LET j == Cardinality({i \in 1..Len(sorted) : sorted[i].score > x.score})
    IN  SubSeq(sorted, 1, j) \o <<x>> \o SubSeq(sorted, j + 1, Len(sorted))

\* x put into a list sorted by descending score, behind every item whose
\* score is not smaller
InsertDesc(sorted, x) ==
    LET j == Cardinality({i \in 1..Len(sorted) : sorted[i].score >= x.score})
    IN  SubSeq(sorted, 1, j) \o <<x>> \o SubSeq(sorted, j + 1, Len(sorted))

\* retriever.py:91: results.sort(key=score, reverse=True); list.sort is stable
RECURSIVE SortByScoreDesc(_)
SortByScoreDesc(items) ==
    IF items = <<>> THEN <<>>
    ELSE InsertDesc(SortByScoreDesc(SubSeq(items, 1, Len(items) - 1)), items[Len(items)])

RetrInit == ChunkerIdle /\ NoIndexNoCall /\ AuxIdle /\ SplitIdle /\ AppIdle

\* a call that ends without reaching the embedder or the search
EndsEarly(fn, q, chs, tk, dimok, oc, err) ==
    /\ rpc' = "returned"
    /\ call' = fn
    /\ query' = q
    /\ chunks' = chs
    /\ top_k' = tk
    /\ dim_ok' = dimok
    /\ outcome' = oc
    /\ error' = err
    /\ search_ret' = <<>>
    /\ results' = <<>>
    /\ called_embed' = FALSE
    /\ called_search' = FALSE

\* faiss_index.py:20-47: build_index(embeddings); embeddings is None, a 1-D
\* array of n numbers, or a matrix of n rows
BuildIndex ==
    /\ rpc = "idle"
    /\ \E shape \in {"none", "1d", "2d"}, n \in 0..MaxN :
          /\ shape = "none" => n = 0
          /\ IF shape = "none"
             THEN EndsEarly("build_index", <<>>, <<>>, 0, TRUE, "raise", "none_embeddings")
                  /\ UNCHANGED index
             ELSE IF n = 0
             THEN EndsEarly("build_index", <<>>, <<>>, 0, TRUE, "raise", "empty_embeddings")
                  /\ UNCHANGED index
             ELSE IF shape = "1d"
             THEN EndsEarly("build_index", <<>>, <<>>, 0, TRUE, "raise", "not_2d")
                  /\ UNCHANGED index
             ELSE EndsEarly("build_index", <<>>, <<>>, 0, TRUE, "return", "none")
                  /\ index' = [kind |-> "flat", n |-> n]
    /\ UNCHANGED <<chunkVars, auxVars, splitVars, appVars>>

\* faiss_index.py:70-92: load_index reads whatever index the file holds, of
\* any vector count, or raises FileNotFoundError
LoadIndex ==
    /\ rpc = "idle"
    /\ \/ \E n \in 0..MaxN :
             /\ index' = [kind |-> "flat", n |-> n]
             /\ EndsEarly("load_index", <<>>, <<>>, 0, TRUE, "return", "none")
       \/ /\ EndsEarly("load_index", <<>>, <<>>, 0, TRUE, "raise", "not_found")
          /\ UNCHANGED index
    /\ UNCHANGED <<chunkVars, auxVars, splitVars, appVars>>

\* the caller holds an index object that exposes no ntotal (the default of
\* getattr at retriever.py:66 and faiss_index.py:140), over n vectors
AdoptIndex ==
    /\ rpc = "idle"
    /\ \E n \in 0..MaxN : index' = [kind |-> "opaque", n |-> n]
    /\ EndsEarly("adopt_index", <<>>, <<>>, 0, TRUE, "return", "none")
    /\ UNCHANGED <<chunkVars, auxVars, splitVars, appVars>>

\* faiss_index.py:95-144: a call of search_index
SearchIndex ==
    /\ rpc = "idle"
    /\ \E tk \in TopKs, dimok \in BOOLEAN :
          \E o \in SearchIndexOutcomes(index, tk, dimok) :
              /\ top_k' = tk
              /\ dim_ok' = dimok
              /\ outcome' = o.outcome
              /\ error' = o.error
              /\ search_ret' = o.slots
    /\ rpc' = "returned"
    /\ call' = "search_index"
    /\ query' = <<>>
    /\ chunks' = <<>>
    /\ results' = <<>>
    /\ called_embed' = FALSE
    /\ called_search' = TRUE
    /\ UNCHANGED <<index, chunkVars, auxVars, splitVars, appVars>>

\* retriever.py:58-92: a call of retrieve_chunks
RetrieveChunks ==
    /\ rpc = "idle"
    /\ \E q \in Queries, chs \in ChunkLists, tk \in TopKs, dimok \in BOOLEAN :
          IF index.kind = "none"
          THEN EndsEarly("retrieve_chunks", q, chs, tk, dimok, "raise", "index_none")
          ELSE IF chs = <<>>
          THEN EndsEarly("retrieve_chunks", q, chs, tk, dimok, "raise", "chunks_empty")
          ELSE IF IsBlank(q)
          THEN EndsEarly("retrieve_chunks", q, chs, tk, dimok, "return", "none")
          ELSE IF CountMismatch(index, chs)
          THEN EndsEarly("retrieve_chunks", q, chs, tk, dimok, "raise", "size_mismatch")
          ELSE \E o \in SearchIndexOutcomes(index, tk, dimok) :
                  /\ rpc' = "returned"
                  /\ call' = "retrieve_chunks"
                  /\ query' = q
                  /\ chunks' = chs
                  /\ top_k' = tk
                  /\ dim_ok' = dimok
                  /\ called_embed' = TRUE
                  /\ called_search' = TRUE
                  /\ outcome' = o.outcome
                  /\ error' = o.error
                  /\ search_ret' = o.slots
                  /\ results' = IF o.outcome = "return"
                                THEN SortByScoreDesc(MapSlots(o.slots, chs))
                                ELSE <<>>
    /\ UNCHANGED <<index, chunkVars, auxVars, splitVars, appVars>>

\* run_pipeline.py:41-61: the caller takes the result and goes on
Resume ==
    /\ rpc = "returned"
    /\ rpc' = "idle"
    /\ call' = "none"
    /\ query' = <<>>
    /\ chunks' = <<>>
    /\ top_k' = 0
    /\ dim_ok' = TRUE
    /\ outcome' = "none"
    /\ error' = "none"
    /\ search_ret' = <<>>
    /\ results' = <<>>
    /\ called_embed' = FALSE
    /\ called_search' = FALSE
    /\ UNCHANGED <<index, chunkVars, auxVars, splitVars, appVars>>

RetrNext ==
    BuildIndex \/ LoadIndex \/ AdoptIndex \/ SearchIndex \/ RetrieveChunks \/ Resume

SpecRetrieve == RetrInit /\ [][RetrNext]_vars

\* ------------------------------------------- rerank_chunks and dict identity
\* Chunk dicts are objects: the caller's list and every returned list hold
\* references (ids) into `heap`, so that a write through an alias is a write
\* to the caller's entry and a write to a copy is not.
MaxCand == 2

\* streamlit_app.py:188 and :191: the top_k the application passes to
\* retrieve_chunks and to rerank_chunks when the reranker is switched on
APP_RETRIEVE_TOP_K == 20
APP_RERANK_TOP_K == 5

\* the texts of candidate dicts: empty, whitespace only, and with content
CandTexts == {<<>>, <<" ">>, <<" ", "a">>}

\* the dicts a caller may hold at position i: a chunk dict, with any text or
\* without the key "text"
CandDicts(i) ==
    {[chunk_id |-> <<"doc", i - 1>>, document_id |-> "doc", text |-> t] : t \in CandTexts}
    \cup {[chunk_id |-> <<"doc", i - 1>>, document_id |-> "doc"]}

RECURSIVE CandHeaps(_)
CandHeaps(n) ==
    IF n = 0 THEN {<<>>}
    ELSE {Append(h, d) : h \in CandHeaps(n - 1), d \in CandDicts(n)}

DictAlias(h, id) == [heap |-> h, id |-> id]

\* dict(ch): a new object with the keys and values of ch
DictCopy(h, id) == [heap |-> Append(h, h[id]), id |-> Len(h) + 1]

\* item[key] = val
SetItem(h, id, key, val) == [h EXCEPT ![id] = (key :> val) @@ @]

\* retriever.py:82-88: one copy per valid slot, with the score written to it
RECURSIVE RetrieveRows(_, _, _)
RetrieveRows(h, slots, chs) ==
    IF slots = <<>> THEN [heap |-> h, results |-> <<>>]
    ELSE LET sl == Head(slots)
         IN  IF ~ValidIdx(sl.idx, Len(chs))
             THEN RetrieveRows(h, Tail(slots), chs)
             ELSE LET item == DictCopy(h, chs[sl.idx + 1])
                      h2 == SetItem(item.heap, item.id, "score", sl.score)
                      rest == RetrieveRows(h2, Tail(slots), chs)
                  IN  [heap |-> rest.heap, results |-> <<item.id>> \o rest.results]

\* retriever.py:91: results.sort(key=lambda r: r.get("score", 0.0), reverse=True)
SortResults(h, ids) ==
    LET keyed == [p \in 1..Len(ids) |-> [score |-> h[ids[p]]["score"], item |-> ids[p]]]
        sorted == SortByScoreDesc(keyed)
    IN  [p \in 1..Len(sorted) |-> sorted[p].item]

\* reranker.py:53: ch.get("text") or ""
TextOf(d) == IF "text" \in DOMAIN d THEN d["text"] ELSE <<>>

HasTextNoStrip(d) == TextOf(d) # <<>>

\* reranker.py:53-54: the text is not empty after strip()
HasText(d) == Strip(TextOf(d)) # <<>>

\* reranker.py:51-55
Filtered(h, ids) == SelectSeq(ids, LAMBDA id : HasText(h[id]))

\* reranker.py:64-69: a copy of each filtered candidate, with rerank_score and
\* retrieval written to it, paired with its score
RECURSIVE Rescore(_, _, _)
Rescore(h, sc, flt) ==
    IF flt = <<>> THEN [heap |-> h, rescored |-> <<>>]
    ELSE LET item == DictCopy(h, Head(flt))
             h2 == SetItem(item.heap, item.id, "rerank_score", Head(sc))
             h3 == SetItem(h2, item.id, "retrieval", "reranked")
             rest == Rescore(h3, Tail(sc), Tail(flt))
         IN  [heap |-> rest.heap,
              rescored |-> <<[score |-> h3[item.id]["rerank_score"], item |-> item.id]>>
                           \o rest.rescored]

\* Python's lst[:k]: the first k elements, and for a negative k all but the
\* last -k
PySliceTo(lst, k) ==
    IF k >= 0 THEN SubSeq(lst, 1, Min(k, Len(lst)))
    ELSE SubSeq(lst, 1, Max(Len(lst) + k, 0))

\* reranker.py:46-58: the call returns [] before the model is used
RerankEndsEarly(h, q, ids) == IsBlank(q) \/ ids = <<>> \/ Filtered(h, ids) = <<>>

\* reranker.py:60-72, for the scores sc that model.predict returned
RerankChunksOn(h, q, ids, tk, sc) ==
    IF RerankEndsEarly(h, q, ids) THEN [heap |-> h, out |-> <<>>]
    ELSE LET r == Rescore(h, sc, Filtered(h, ids))
             cut == PySliceTo(SortByScoreDesc(r.rescored), tk)
         IN  [heap |-> r.heap, out |-> [p \in 1..Len(cut) |-> cut[p].item]]

\* the score lists model.predict can return for the call
PredictOutcomes(h, q, ids) ==
    IF RerankEndsEarly(h, q, ids) THEN {<<>>}
    ELSE [1..Len(Filtered(h, ids)) -> 0..MaxScore]

\* the caller holds a list of chunk dicts
RerankInit ==
    /\ ChunkerIdle
    /\ NoIndexNoCall
    /\ LoaderIdle
    /\ PipelineIdle
    /\ CleanIdle
    /\ MetricsIdle
    /\ SplitIdle
    /\ AppIdle
    /\ \E n \in 0..MaxCand :
          /\ heap \in CandHeaps(n)
          /\ caller_chunks = [i \in 1..n |-> i]
    /\ initial = <<>>
    /\ rr_chunks = <<>>
    /\ rr_query = <<>>
    /\ rr_top_k = 0
    /\ scores = <<>>
    /\ reranked = <<>>
    /\ rr_pc = "idle"

\* streamlit_app.py:179-189: the application retrieves for a query over an
\* index whose rows are the embeddings of the caller's chunks
AppRetrieve ==
    /\ rr_pc = "idle"
    /\ caller_chunks # <<>>
    /\ \E q \in Queries \ {<<>>} :
          /\ rr_query' = q
          /\ IF IsBlank(q)
             THEN /\ initial' = <<>>
                  /\ heap' = heap
                  /\ rr_pc' = "retrieved"
             ELSE \E o \in SearchIndexOutcomes([kind |-> "flat", n |-> Len(caller_chunks)],
                                               APP_RETRIEVE_TOP_K, TRUE) :
                     LET r == RetrieveRows(heap, o.slots, caller_chunks)
                     IN  /\ heap' = r.heap
                         /\ initial' = SortResults(r.heap, r.results)
                         /\ rr_pc' = "retrieved"
    /\ UNCHANGED <<caller_chunks, rr_chunks, rr_top_k, scores, reranked>>
    /\ UNCHANGED <<chunkVars, retrVars, loaderVars, pipelineVars, cleanVars, metricVars, splitVars, appVars>>

\* streamlit_app.py:191: rerank_chunks(query, initial, top_k=5)
AppRerank ==
    /\ rr_pc = "retrieved"
    /\ \E sc \in PredictOutcomes(heap, rr_query, initial) :
          LET r == RerankChunksOn(heap, rr_query, initial, APP_RERANK_TOP_K, sc)
          IN  /\ scores' = sc
              /\ heap' = r.heap
              /\ reranked' = r.out
    /\ rr_chunks' = initial
    /\ rr_top_k' = APP_RERANK_TOP_K
    /\ rr_pc' = "reranked"
    /\ UNCHANGED <<caller_chunks, initial, rr_query>>
    /\ UNCHANGED <<chunkVars, retrVars, loaderVars, pipelineVars, cleanVars, metricVars, splitVars, appVars>>

\* reranker.py:25-72: a call of rerank_chunks on the caller's own list
RerankChunks ==
    /\ rr_pc = "idle"
    /\ \E q \in Queries, tk \in TopKs :
          \E sc \in PredictOutcomes(heap, q, caller_chunks) :
              LET r == RerankChunksOn(heap, q, caller_chunks, tk, sc)
              IN  /\ rr_query' = q
                  /\ rr_top_k' = tk
                  /\ scores' = sc
                  /\ heap' = r.heap
                  /\ reranked' = r.out
    /\ rr_chunks' = caller_chunks
    /\ rr_pc' = "reranked"
    /\ UNCHANGED <<caller_chunks, initial>>
    /\ UNCHANGED <<chunkVars, retrVars, loaderVars, pipelineVars, cleanVars, metricVars, splitVars, appVars>>

\* the caller drops the returned lists and keeps its own
DropResults ==
    /\ rr_pc = "reranked"
    /\ heap' = SubSeq(heap, 1, Len(caller_chunks))
    /\ initial' = <<>>
    /\ rr_chunks' = <<>>
    /\ rr_query' = <<>>
    /\ rr_top_k' = 0
    /\ scores' = <<>>
    /\ reranked' = <<>>
    /\ rr_pc' = "idle"
    /\ UNCHANGED caller_chunks
    /\ UNCHANGED <<chunkVars, retrVars, loaderVars, pipelineVars, cleanVars, metricVars, splitVars, appVars>>

RerankNext == AppRetrieve \/ AppRerank \/ RerankChunks \/ DropResults

SpecRerank == RerankInit /\ [][RerankNext]_vars

\* ------------------------------------ get_embedder and get_reranker, threaded
\* Each function reads its module global, constructs the model when the global
\* is None, assigns it, and returns the global.  Threads of one process
\* interleave between these steps (the application serves each session in a
\* thread of its own).
MaxThreads == 2

Threads == 1..MaxThreads

\* embedder.py:94 and reranker.py:11
Getters == {"get_embedder", "get_reranker"}

\* None
None == 0

\* embedder.py:89-90, reranker.py:7: both globals start as None
LoaderInit ==
    /\ ChunkerIdle
    /\ NoIndexNoCall
    /\ RerankIdle
    /\ PipelineIdle
    /\ CleanIdle
    /\ MetricsIdle
    /\ SplitIdle
    /\ AppIdle
    /\ cache = [g \in Getters |-> None]
    /\ constructed = [g \in Getters |-> 0]
    /\ t_pc = [t \in Threads |-> "idle"]
    /\ t_fn = [t \in Threads |-> "none"]
    /\ t_model = [t \in Threads |-> None]
    /\ t_ret = [t \in Threads |-> None]

\* a thread calls get_embedder() or get_reranker()
Call(t) ==
    /\ t_pc[t] = "idle"
    /\ \E g \in Getters : t_fn' = [t_fn EXCEPT ![t] = g]
    /\ t_pc' = [t_pc EXCEPT ![t] = "test"]
    /\ t_model' = [t_model EXCEPT ![t] = None]
    /\ t_ret' = [t_ret EXCEPT ![t] = None]
    /\ UNCHANGED <<cache, constructed>>
    /\ UNCHANGED <<chunkVars, retrVars, rerankVars, pipelineVars, cleanVars, metricVars, splitVars, appVars>>

\* embedder.py:114, reranker.py:20: if _EMBEDDER is None
TestNone(t) ==
    /\ t_pc[t] = "test"
    /\ t_pc' = [t_pc EXCEPT ![t] = IF cache[t_fn[t]] = None THEN "construct" ELSE "return"]
    /\ UNCHANGED <<cache, constructed, t_fn, t_model, t_ret>>
    /\ UNCHANGED <<chunkVars, retrVars, rerankVars, pipelineVars, cleanVars, metricVars, splitVars, appVars>>

\* embedder.py:115, reranker.py:21, right-hand side: the model is constructed;
\* each construction yields a new handle
Construct(t) ==
    /\ t_pc[t] = "construct"
    /\ constructed' = [constructed EXCEPT ![t_fn[t]] = @ + 1]
    /\ t_model' = [t_model EXCEPT ![t] = constructed[t_fn[t]] + 1]
    /\ t_pc' = [t_pc EXCEPT ![t] = "assign"]
    /\ UNCHANGED <<cache, t_fn, t_ret>>
    /\ UNCHANGED <<chunkVars, retrVars, rerankVars, pipelineVars, cleanVars, metricVars, splitVars, appVars>>

\* embedder.py:115, reranker.py:21: the assignment to the global
Assign(t) ==
    /\ t_pc[t] = "assign"
    /\ cache' = [cache EXCEPT ![t_fn[t]] = t_model[t]]
    /\ t_pc' = [t_pc EXCEPT ![t] = "return"]
    /\ UNCHANGED <<constructed, t_fn, t_model, t_ret>>
    /\ UNCHANGED <<chunkVars, retrVars, rerankVars, pipelineVars, cleanVars, metricVars, splitVars, appVars>>

\* embedder.py:116, reranker.py:22: return _EMBEDDER
Return(t) ==
    /\ t_pc[t] = "return"
    /\ t_ret' = [t_ret EXCEPT ![t] = cache[t_fn[t]]]
    /\ t_pc' = [t_pc EXCEPT ![t] = "done"]
    /\ UNCHANGED <<cache, constructed, t_fn, t_model>>
    /\ UNCHANGED <<chunkVars, retrVars, rerankVars, pipelineVars, cleanVars, metricVars, splitVars, appVars>>

\* the caller uses the handle and is free to call again
Release(t) ==
    /\ t_pc[t] = "done"
    /\ t_pc' = [t_pc EXCEPT ![t] = "idle"]
    /\ t_fn' = [t_fn EXCEPT ![t] = "none"]
    /\ t_model' = [t_model EXCEPT ![t] = None]
    /\ t_ret' = [t_ret EXCEPT ![t] = None]
    /\ UNCHANGED <<cache, constructed>>
    /\ UNCHANGED <<chunkVars, retrVars, rerankVars, pipelineVars, cleanVars, metricVars, splitVars, appVars>>

LoaderNext ==
    \E t \in Threads :
        Call(t) \/ TestNone(t) \/ Construct(t) \/ Assign(t) \/ Return(t) \/ Release(t)

SpecLoader == LoaderInit /\ [][LoaderNext]_vars

\* ------------------------------------- the ingestion path and its vectors
\* A vector is its direction, its Euclidean norm, and whether it has been
\* through _l2_normalize.  Directions are at 0, 90 and 180 degrees, so the
\* cosine of two of them is 1, 0 or -1.
MaxRows == 2
MaxNorm == 2

Angles == {0, 1, 2}

Cos(a, b) == IF a = b THEN 1 ELSE IF a - b = 1 \/ b - a = 1 THEN 0 ELSE -1

\* embedder.py:140-146: model.encode returns the vectors as the model emits
\* them (normalize_embeddings is not requested), of any non-zero length
EncodeOutputs ==
    {[dir |-> a, norm |-> k, l2 |-> FALSE] : a \in Angles, k \in 1..MaxNorm}

\* retriever.py:16-22: x / max(norm(x), eps)
L2Normalize(v) ==
    [dir |-> v.dir, norm |-> IF v.norm = 0 THEN 0 ELSE 1, l2 |-> TRUE]

\* the inner product faiss.IndexFlatIP computes (faiss_index.py:45)
InnerProduct(a, b) == a.norm * b.norm * Cos(a.dir, b.dir)

\* run_pipeline.py:11-30: documents are loaded and chunked
PipelineInit ==
    /\ ChunkerIdle
    /\ NoIndexNoCall
    /\ RerankIdle
    /\ LoaderIdle
    /\ CleanIdle
    /\ MetricsIdle
    /\ SplitIdle
    /\ AppIdle
    /\ pl_pc = "chunked"
    /\ embeddings = <<>>
    /\ rows = <<>>
    /\ q_vec = <<>>
    /\ pl_scores = <<>>

\* run_pipeline.py:33-34: embeddings = embed_texts(chunk_texts), one vector
\* per chunk, at least one chunk (line 26)
EmbedChunks ==
    /\ pl_pc = "chunked"
    /\ \E n \in 1..MaxRows : embeddings' \in [1..n -> EncodeOutputs]
    /\ pl_pc' = "embedded"
    /\ UNCHANGED <<rows, q_vec, pl_scores>>
    /\ UNCHANGED <<chunkVars, retrVars, rerankVars, loaderVars, cleanVars, metricVars, splitVars, appVars>>

\* run_pipeline.py:37, faiss_index.py:43-46: index.add(embs) stores the rows
\* as they are passed
BuildFromEmbeddings ==
    /\ pl_pc = "embedded"
    /\ rows' = embeddings
    /\ pl_pc' = "built"
    /\ UNCHANGED <<embeddings, q_vec, pl_scores>>
    /\ UNCHANGED <<chunkVars, retrVars, rerankVars, loaderVars, cleanVars, metricVars, splitVars, appVars>>

\* retriever.py:73: q_vec = embed_texts([query], batch_size=1)
EmbedQuery ==
    /\ pl_pc \in {"built", "searched"}
    /\ q_vec' \in EncodeOutputs
    /\ pl_scores' = <<>>
    /\ pl_pc' = "queried"
    /\ UNCHANGED <<embeddings, rows>>
    /\ UNCHANGED <<chunkVars, retrVars, rerankVars, loaderVars, cleanVars, metricVars, splitVars, appVars>>

\* retriever.py:74: q_vec = _l2_normalize(q_vec)
NormalizeQuery ==
    /\ pl_pc = "queried"
    /\ q_vec' = L2Normalize(q_vec)
    /\ pl_pc' = "normalized"
    /\ UNCHANGED <<embeddings, rows, pl_scores>>
    /\ UNCHANGED <<chunkVars, retrVars, rerankVars, loaderVars, cleanVars, metricVars, splitVars, appVars>>

\* retriever.py:77, faiss_index.py:143: the score of a row is its inner
\* product with the query vector
SearchRows ==
    /\ pl_pc = "normalized"
    /\ pl_scores' = [i \in 1..Len(rows) |-> InnerProduct(q_vec, rows[i])]
    /\ pl_pc' = "searched"
    /\ UNCHANGED <<embeddings, rows, q_vec>>
    /\ UNCHANGED <<chunkVars, retrVars, rerankVars, loaderVars, cleanVars, metricVars, splitVars, appVars>>

PipelineNext ==
    EmbedChunks \/ BuildFromEmbeddings \/ EmbedQuery \/ NormalizeQuery \/ SearchRows

SpecPipeline == PipelineInit /\ [][PipelineNext]_vars

\* ------------------------------------------------------------- clean_text
\* A string is a sequence of characters.  "\t" is the tab character and
\* "U+00E9" stands for one non-ASCII character (e with acute accent).
MaxPieces == 3

References == <<"r", "e", "f", "e", "r", "e", "n", "c", "e", "s">>

Bibliography == <<"B", "i", "b", "l", "i", "o", "g", "r", "a", "p", "h", "y">>

\* the pieces the input texts are made of
Pieces ==
    {<<" ">>, <<"\t">>, <<"a">>, <<".">>, <<"U+00E9">>, References, Bibliography}

RECURSIVE Texts(_)
Texts(n) ==
    IF n = 0 THEN {<<>>}
    ELSE LET shorter == Texts(n - 1)
         IN  shorter \cup {t \o p : t \in shorter, p \in Pieces}

IsAscii(c) == c # "U+00E9"

\* the characters that \s matches
IsSpace(c) == c \in {" ", "\t"}

\* str.lower() on one character
Lower(c) == IF c = "B" THEN "b" ELSE c

\* cleaner.py:42: text.encode("ascii", errors="ignore").decode("ascii")
AsciiOnly(s) == SelectSeq(s, IsAscii)

\* cleaner.py:45: re.sub(r"\s+", " ", ascii_text)
RECURSIVE CollapseWhitespace(_)
CollapseWhitespace(s) ==
    IF s = <<>> THEN <<>>
    ELSE IF IsSpace(Head(s))
    THEN IF Len(s) > 1 /\ IsSpace(s[2])
         THEN CollapseWhitespace(Tail(s))
         ELSE <<" ">> \o CollapseWhitespace(Tail(s))
    ELSE <<Head(s)>> \o CollapseWhitespace(Tail(s))

\* str.find(marker): the offset of the first occurrence, or -1
Find(s, marker) ==
    LET at == {o \in 0..(Len(s) - Len(marker)) : SubSeq(s, o + 1, o + Len(marker)) = marker}
    IN  IF at = {} THEN -1 ELSE CHOOSE o \in at : \A x \in at : o <= x

\* cleaner.py:47: the markers, in the order they are tried
Markers == <<References, [i \in 1..Len(Bibliography) |-> Lower(Bibliography[i])]>>

\* cleaner.py:46-51: cut at the first marker that occurs in the lowered text
RECURSIVE CutAtMarker(_, _)
CutAtMarker(normalized, k) ==
    IF k > Len(Markers) THEN normalized
    ELSE LET lower == [i \in 1..Len(normalized) |-> Lower(normalized[i])]
             idx == Find(lower, Markers[k])
         IN  IF idx # -1 THEN Strip(SubSeq(normalized, 1, idx))
             ELSE CutAtMarker(normalized, k + 1)

\* clean_text is called on a text
CleanInit ==
    /\ ChunkerIdle
    /\ NoIndexNoCall
    /\ RerankIdle
    /\ LoaderIdle
    /\ PipelineIdle
    /\ MetricsIdle
    /\ SplitIdle
    /\ AppIdle
    /\ cl_in \in Texts(MaxPieces)
    /\ cl_text = cl_in
    /\ cl_pc = "called"

\* cleaner.py:37-38: if not text: return ""
ReturnEmpty ==
    /\ cl_pc = "called"
    /\ cl_text = <<>>
    /\ cl_pc' = "done"
    /\ UNCHANGED <<cl_in, cl_text>>
    /\ UNCHANGED <<chunkVars, retrVars, rerankVars, loaderVars, pipelineVars, metricVars, splitVars, appVars>>

\* cleaner.py:42
DropNonAscii ==
    /\ cl_pc = "called"
    /\ cl_text # <<>>
    /\ cl_text' = AsciiOnly(cl_text)
    /\ cl_pc' = "ascii"
    /\ UNCHANGED cl_in
    /\ UNCHANGED <<chunkVars, retrVars, rerankVars, loaderVars, pipelineVars, metricVars, splitVars, appVars>>

\* cleaner.py:45
Collapse ==
    /\ cl_pc = "ascii"
    /\ cl_text' = CollapseWhitespace(cl_text)
    /\ cl_pc' = "normalized"
    /\ UNCHANGED cl_in
    /\ UNCHANGED <<chunkVars, retrVars, rerankVars, loaderVars, pipelineVars, metricVars, splitVars, appVars>>

\* cleaner.py:46-51
CutReferences ==
    /\ cl_pc = "normalized"
    /\ cl_text' = CutAtMarker(cl_text, 1)
    /\ cl_pc' = "cut"
    /\ UNCHANGED cl_in
    /\ UNCHANGED <<chunkVars, retrVars, rerankVars, loaderVars, pipelineVars, metricVars, splitVars, appVars>>

\* cleaner.py:53: return normalized.strip()
ReturnStripped ==
    /\ cl_pc = "cut"
    /\ cl_text' = Strip(cl_text)
    /\ cl_pc' = "done"
    /\ UNCHANGED cl_in
    /\ UNCHANGED <<chunkVars, retrVars, rerankVars, loaderVars, pipelineVars, metricVars, splitVars, appVars>>

CleanNext == ReturnEmpty \/ DropNonAscii \/ Collapse \/ CutReferences \/ ReturnStripped

SpecClean == CleanInit /\ [][CleanNext]_vars

\* -------------------------------- the force-split loop of chunk_text, stepwise
\* chunker.py:94-103 for one oversized sentence, one action per iteration of
\* the while loop.  chunk_size > 0 is the contract's precondition.
SplitInit ==
    /\ ChunkerIdle
    /\ NoIndexNoCall
    /\ AuxIdle
    /\ AppIdle
    /\ sp_size \in 1..MaxChunkSize
    /\ sp_overlap_arg \in -1..MaxOverlap
    /\ \E n \in (sp_size + 1)..MaxSentLen : sp_tokens = [p \in 1..n |-> p]
    /\ sp_overlap = ClampOverlap(sp_overlap_arg, sp_size)
    /\ sp_stride = Stride(sp_size, sp_overlap)
    /\ sp_j = 0
    /\ sp_j_before = -1
    /\ sp_blocks = <<>>
    /\ sp_pc = "while"

\* chunker.py:99-103: one iteration
SplitStep ==
    /\ sp_pc = "while"
    /\ sp_j < Len(sp_tokens)
    /\ LET block == SubSeq(sp_tokens, sp_j + 1, Min(sp_j + sp_size, Len(sp_tokens)))
       IN  sp_blocks' = IF block # <<>> THEN Append(sp_blocks, block) ELSE sp_blocks
    /\ sp_j' = sp_j + sp_stride
    /\ sp_j_before' = sp_j
    /\ UNCHANGED <<sp_tokens, sp_size, sp_overlap_arg, sp_overlap, sp_stride, sp_pc>>
    /\ UNCHANGED <<chunkVars, retrVars, auxVars, appVars>>

\* chunker.py:99: the loop condition fails
SplitExit ==
    /\ sp_pc = "while"
    /\ ~(sp_j < Len(sp_tokens))
    /\ sp_pc' = "exit"
    /\ UNCHANGED <<sp_tokens, sp_size, sp_overlap_arg, sp_overlap, sp_stride, sp_j, sp_j_before,
                   sp_blocks>>
    /\ UNCHANGED <<chunkVars, retrVars, auxVars, appVars>>

SplitNext == SplitStep \/ SplitExit

SpecSplit == SplitInit /\ [][SplitNext]_vars

\* ------------------------------------------ the application's saved index
\* streamlit_app.py keeps the index and the chunk list in session state and
\* in two files.  An index or a chunk list is represented by its number of
\* entries, at least 1 (build_index rejects an empty matrix); None and an
\* absent file are 0.
MaxChunks == 4

\* streamlit_app.py:92-95 of a new session, with nothing saved
AppInit ==
    /\ ChunkerIdle
    /\ NoIndexNoCall
    /\ AuxIdle
    /\ SplitIdle
    /\ faiss_index_file = None
    /\ chunks_json_file = None
    /\ ss_index = None
    /\ ss_chunks = None
    /\ restored = FALSE
    /\ app_pc = "idle"

\* streamlit_app.py:92-95: a new session starts (page reload, server restart)
NewSession ==
    /\ app_pc = "idle"
    /\ ss_index' = None
    /\ ss_chunks' = None
    /\ restored' = FALSE
    /\ UNCHANGED <<faiss_index_file, chunks_json_file, app_pc>>
    /\ UNCHANGED <<chunkVars, retrVars, auxVars, splitVars>>

\* streamlit_app.py:97-108: the saved pair is loaded into session state
Restore ==
    /\ app_pc = "idle"
    /\ ss_index = None
    /\ faiss_index_file # None
    /\ chunks_json_file # None
    /\ ss_chunks' = chunks_json_file
    /\ ss_index' = faiss_index_file
    /\ restored' = TRUE
    /\ UNCHANGED <<faiss_index_file, chunks_json_file, app_pc>>
    /\ UNCHANGED <<chunkVars, retrVars, auxVars, splitVars>>

\* streamlit_app.py:110-123: Reset
Reset ==
    /\ app_pc = "idle"
    /\ ss_chunks' = None
    /\ ss_index' = None
    /\ faiss_index_file' = None
    /\ chunks_json_file' = None
    /\ restored' = FALSE
    /\ UNCHANGED app_pc
    /\ UNCHANGED <<chunkVars, retrVars, auxVars, splitVars>>

\* streamlit_app.py:126-153: Process chunks the uploads, embeds the chunks,
\* builds the index and puts both into session state
ProcessBuild ==
    /\ app_pc = "idle"
    /\ \E n \in 1..MaxChunks :
          /\ ss_chunks' = n
          /\ ss_index' = n
    /\ restored' = FALSE
    /\ app_pc' = "built"
    /\ UNCHANGED <<faiss_index_file, chunks_json_file>>
    /\ UNCHANGED <<chunkVars, retrVars, auxVars, splitVars>>

\* streamlit_app.py:159: faiss.write_index(index, "storage/faiss.index")
WriteIndexFile ==
    /\ app_pc = "built"
    /\ faiss_index_file' = ss_index
    /\ app_pc' = "index_written"
    /\ UNCHANGED <<chunks_json_file, ss_index, ss_chunks, restored>>
    /\ UNCHANGED <<chunkVars, retrVars, auxVars, splitVars>>

\* streamlit_app.py:162-163: json.dump(all_chunks, f)
WriteChunksFile ==
    /\ app_pc = "index_written"
    /\ chunks_json_file' = ss_chunks
    /\ app_pc' = "idle"
    /\ UNCHANGED <<faiss_index_file, ss_index, ss_chunks, restored>>
    /\ UNCHANGED <<chunkVars, retrVars, auxVars, splitVars>>

\* the Process run is interrupted (the server is stopped or killed) before
\* line 159 or between lines 159 and 162; session state is lost, files stay
Interrupt ==
    /\ app_pc \in {"built", "index_written"}
    /\ ss_index' = None
    /\ ss_chunks' = None
    /\ restored' = FALSE
    /\ app_pc' = "idle"
    /\ UNCHANGED <<faiss_index_file, chunks_json_file>>
    /\ UNCHANGED <<chunkVars, retrVars, auxVars, splitVars>>

AppNext ==
    \/ NewSession
    \/ Restore
    \/ Reset
    \/ ProcessBuild
    \/ WriteIndexFile
    \/ WriteChunksFile
    \/ Interrupt

SpecApp == AppInit /\ [][AppNext]_vars

\* ------------------------------------------ precision_at_k and recall_at_k

MaxIds == 2
MaxRetrieved == 3
MaxK == 4

\* document ids; the metrics only compare them for equality
Ids == 1..MaxIds

\* retrieved_ids: any list of ids, repeats included
RetrievedLists == UNION {[1..n -> Ids] : n \in 0..MaxRetrieved}

Metrics == {"precision_at_k", "recall_at_k"}

\* sum(1 for rid in top_k if rid in relevant_ids): one per position of the list
Hits(top, relevant_ids) == Cardinality({i \in 1..Len(top) : top[i] \in relevant_ids})

\* a metric is called with a list, a set and an integer k
MetricsInit ==
    /\ ChunkerIdle
    /\ NoIndexNoCall
    /\ RerankIdle
    /\ LoaderIdle
    /\ PipelineIdle
    /\ CleanIdle
    /\ SplitIdle
    /\ AppIdle
    /\ m_fn \in Metrics
    /\ m_retrieved \in RetrievedLists
    /\ m_relevant \in SUBSET Ids
    /\ m_k \in -1..MaxK
    /\ m_hits = 0
    /\ m_ret = <<0, 1>>
    /\ m_pc = "called"

\* retrieval_metrics.py:8-14
PrecisionAtK ==
    /\ m_pc = "called"
    /\ m_fn = "precision_at_k"
    /\ LET top == PySliceTo(m_retrieved, m_k)
       IN  IF m_k <= 0 \/ top = <<>>
           THEN /\ m_hits' = 0
                /\ m_ret' = <<0, 1>>
           ELSE /\ m_hits' = Hits(top, m_relevant)
                /\ m_ret' = <<Hits(top, m_relevant), m_k>>
    /\ m_pc' = "returned"
    /\ UNCHANGED <<m_fn, m_retrieved, m_relevant, m_k>>
    /\ UNCHANGED <<chunkVars, retrVars, rerankVars, loaderVars, pipelineVars, cleanVars>>
    /\ UNCHANGED <<splitVars, appVars>>

\* retrieval_metrics.py:21-25
RecallAtK ==
    /\ m_pc = "called"
    /\ m_fn = "recall_at_k"
    /\ LET top == PySliceTo(m_retrieved, m_k)
       IN  IF m_relevant = {}
           THEN /\ m_hits' = 0
                /\ m_ret' = <<0, 1>>
           ELSE /\ m_hits' = Hits(top, m_relevant)
                /\ m_ret' = <<Hits(top, m_relevant), Cardinality(m_relevant)>>
    /\ m_pc' = "returned"
    /\ UNCHANGED <<m_fn, m_retrieved, m_relevant, m_k>>
    /\ UNCHANGED <<chunkVars, retrVars, rerankVars, loaderVars, pipelineVars, cleanVars>>
    /\ UNCHANGED <<splitVars, appVars>>

MetricsNext == PrecisionAtK \/ RecallAtK

SpecMetrics == MetricsInit /\ [][MetricsNext]_vars

\* ------------------------------------------------- properties of chunk_text
Suffix(q, k) == SubSeq(q, Len(q) - k + 1, Len(q))

IsPrefix(p, q) == Len(p) <= Len(q) /\ SubSeq(q, 1, Len(p)) = p

\* s occurs in q whole: all its tokens, contiguous and in order
Contains(q, s) ==
    \E o \in 0..(Len(q) - Len(s)) : SubSeq(q, o + 1, o + Len(s)) = s

FittingSentences == {k \in 1..Len(sentences) : Len(sentences[k]) <= chunk_size}

\* C1: every chunk chunk_text builds or returns has at most chunk_size
\* tokens, whatever the order of oversized and normal sentences and whatever
\* the overlap passed.
C1_ChunkTokenBound ==
    /\ \A i \in 1..Len(chunks_tokens) : Len(chunks_tokens[i]) <= chunk_size
    /\ Len(current) <= chunk_size
    /\ \A i \in 1..Len(out) : Len(out[i].text) <= chunk_size

\* C1 witness: a returned sequence holding a force-split block and a chunk
\* that was seeded with an overlap tail and filled up to chunk_size.
C1_Witness ==
    /\ cpc = "done"
    /\ overlap > 0
    /\ \E i \in 1..Len(out) : out_meta[i].kind = "block"
    /\ \E j \in 1..Len(out) :
          /\ out_meta[j].kind = "greedy"
          /\ out_meta[j].first > 0
          /\ out[j].text[1] < sentences[Len(sentences)][1]
          /\ Len(out[j].text) = chunk_size

\* C2 as stated: for consecutive returned chunks i, i+1 of the greedy path,
\* with overlap > 0, the trailing min(overlap, len(chunk_i)) tokens of chunk i
\* are a prefix of chunk i+1.
C2_OverlapPrefixAsStated ==
    (cpc = "done" /\ overlap > 0) =>
        \A i \in 1..(Len(out) - 1) :
            (out_meta[i].kind = "greedy" /\ out_meta[i + 1].kind = "greedy") =>
                IsPrefix(Suffix(out[i].text, Min(overlap, Len(out[i].text))),
                         out[i + 1].text)

\* C2 amended: for consecutive returned chunks i, i+1 of the greedy path that
\* were adjacent before the short-chunk filter, with overlap > 0, the trailing
\* min(overlap, len(chunk_i), chunk_size - len(s)) tokens of chunk i are a
\* prefix of chunk i+1, s being the sentence whose overflow opened chunk i+1.
C2_OverlapPrefixEffective ==
    (cpc = "done" /\ overlap > 0) =>
        \A i \in 1..(Len(out) - 1) :
            (/\ out_meta[i].kind = "greedy"
             /\ out_meta[i + 1].kind = "greedy"
             /\ out_meta[i + 1].pre = out_meta[i].pre + 1) =>
                /\ out_meta[i + 1].first > 0
                /\ IsPrefix(Suffix(out[i].text,
                                   Min(Min(overlap, Len(out[i].text)),
                                       chunk_size - out_meta[i + 1].first)),
                            out[i + 1].text)

\* C2 witness: two adjacent greedy chunks are returned and the second starts
\* with two tokens of the first.
C2_Witness ==
    /\ cpc = "done"
    /\ overlap >= 2
    /\ \E i \in 1..(Len(out) - 1) :
          /\ out_meta[i].kind = "greedy"
          /\ out_meta[i + 1].kind = "greedy"
          /\ out_meta[i + 1].pre = out_meta[i].pre + 1
          /\ chunk_size - out_meta[i + 1].first >= 2
          /\ Len(out[i].text) >= 3

\* C3 as stated: at every seeding of a new buffer from the previous chunk the
\* number of tokens carried over is at most the clamped overlap (none when
\* overlap = 0).
C3_CarryAtMostOverlap ==
    seedings > 0 => carried <= overlap

\* C4 as stated: every sentence of at most chunk_size tokens is whole in a
\* returned chunk.
C4_FittingSentenceReturned ==
    cpc = "done" =>
        \A k \in FittingSentences :
            \E i \in 1..Len(out) : Contains(out[i].text, sentences[k])

\* C4 amended: every sentence of at most chunk_size tokens is whole in a chunk
\* of the sequence built before the short-chunk filter, and is whole in a
\* returned chunk whenever one of the chunks holding it has at least
\* MIN_TOKENS tokens or only one chunk was built.
C4_FittingSentenceBuilt ==
    cpc = "done" =>
        \A k \in FittingSentences :
            LET holders == {i \in 1..Len(built) : Contains(built[i], sentences[k])}
            IN  /\ holders # {}
                /\ (Len(built) = 1 \/ \E i \in holders : Len(built[i]) >= MIN_TOKENS)
                      => \E j \in 1..Len(out) : Contains(out[j].text, sentences[k])

\* C4 witness: a sentence that did not fit beside the buffer opened the second
\* returned chunk and is whole in it.
C4_Witness ==
    /\ cpc = "done"
    /\ Len(out) >= 2
    /\ out_meta[2].first > 0
    /\ \E k \in FittingSentences :
          /\ Len(sentences[k]) = out_meta[2].first
          /\ Contains(out[2].text, sentences[k])
          /\ ~Contains(out[1].text, sentences[k])

\* ------------------------------------------- properties of retrieve_chunks
Retrieved == rpc = "returned" /\ call = "retrieve_chunks"

\* empty or made of whitespace only
WhitespaceOnly(q) == \A i \in 1..Len(q) : q[i] = " "

\* chs holds the entries of base in another order
IsReordering(chs, base) ==
    chs # base /\ Len(chs) = Len(base) /\ Range(chs) = Range(base)

\* chs is base with at least one entry left out, the others in their order
IsFiltering(chs, base) ==
    /\ Len(chs) < Len(base)
    /\ Range(chs) \subseteq Range(base)
    /\ \A i, j \in 1..Len(chs) :
          i < j => \E p, r \in 1..Len(base) : p < r /\ base[p] = chs[i] /\ base[r] = chs[j]

\* C5 as stated: for every query, retrieve_chunks called with a non-null index
\* whose vector count differs from len(chunks) raises.
C5_CountMismatchRaises ==
    (Retrieved /\ HasNtotal(index) /\ index.n # Len(chunks)) => outcome = "raise"

SlotPlaces(item) ==
    {p \in 1..Len(search_ret) :
        /\ search_ret[p].idx >= 0
        /\ search_ret[p].idx < Len(chunks)
        /\ chunks[search_ret[p].idx + 1].chunk_id = item.chunk_id
        /\ search_ret[p].score = item.score}

\* C8: the list retrieve_chunks returns is in descending score, and items of
\* equal score are in the order in which the search returned them.
C8_DescendingStable ==
    (Retrieved /\ outcome = "return") =>
        \A i, j \in 1..Len(results) :
            i < j =>
                /\ results[i].score >= results[j].score
                /\ results[i].score = results[j].score =>
                      \E p \in SlotPlaces(results[i]), r \in SlotPlaces(results[j]) : p < r

\* C8 witness: the search returned its rows out of order, two of them with
\* the same score, and three items were returned.
C8_Witness ==
    /\ Retrieved
    /\ outcome = "return"
    /\ Len(results) >= 3
    /\ \E p \in 1..(Len(search_ret) - 1) : search_ret[p].score < search_ret[p + 1].score
    /\ \E i \in 1..(Len(results) - 1) : results[i].score = results[i + 1].score

ValidPlaces ==
    {p \in 1..Len(search_ret) : search_ret[p].idx >= 0 /\ search_ret[p].idx < Len(chunks)}

FromSlot(item, p) ==
    LET c == chunks[search_ret[p].idx + 1]
    IN  /\ item.chunk_id = c.chunk_id
        /\ item.document_id = c.document_id
        /\ item.text = c.text
        /\ item.score = search_ret[p].score

\* C9: for a query that is not blank, the items returned are exactly the
\* slots of the search whose index i is in 0..len(chunks)-1, each with the
\* chunk_id, document_id and text of chunks[i] and the score of the slot; a
\* negative or out-of-range index gives no item; and when chunks is the list
\* the index was built from, the item of row i is the chunk embedded as row i.
C9_ItemsAreValidSlots ==
    (Retrieved /\ outcome = "return" /\ ~WhitespaceOnly(query)) =>
        /\ Len(results) = Cardinality(ValidPlaces)
        /\ \A i \in 1..Len(results) : \E p \in ValidPlaces : FromSlot(results[i], p)
        /\ \A p \in ValidPlaces : \E i \in 1..Len(results) : FromSlot(results[i], p)
        /\ (index.kind = "flat" /\ chunks = IndexedChunks(index)) =>
              \A p \in 1..Len(search_ret) :
                  \E i \in 1..Len(results) :
                      /\ results[i].chunk_id = Chunk(search_ret[p].idx + 1).chunk_id
                      /\ results[i].score = search_ret[p].score

\* C9 witness: two slots were mapped to items, among them row 0, and a
\* sentinel or out-of-range slot was dropped.
C9_Witness ==
    /\ Retrieved
    /\ outcome = "return"
    /\ Len(results) = 2
    /\ Len(search_ret) > 2
    /\ \E p \in ValidPlaces : search_ret[p].idx = 0
    /\ \E p \in 1..Len(search_ret) : search_ret[p].idx >= Len(chunks)
    /\ \E p \in 1..Len(search_ret) : search_ret[p].idx < 0

\* C10 as stated: for every index with a vector count N and every top_k > 0,
\* search_index returns exactly min(top_k, N) slots, none of them a sentinel.
C10_SearchReturnsMinSlots ==
    (/\ rpc = "returned"
     /\ call = "search_index"
     /\ outcome = "return"
     /\ HasNtotal(index)
     /\ top_k > 0)
        => /\ Len(search_ret) = Min(top_k, index.n)
           /\ \A p \in 1..Len(search_ret) : search_ret[p].idx # -1

\* ---------------------------------------------- properties of rerank_chunks
\* the dict has a text that is not empty after trimming
TrimmedNonEmpty(d) ==
    "text" \in DOMAIN d /\ \E i \in 1..Len(d["text"]) : d["text"][i] # " "

\* the positions of the candidate list whose text is non-empty after trimming
NonBlankPlaces ==
    SelectSeq([p \in 1..Len(rr_chunks) |-> p],
              LAMBDA p : TrimmedNonEmpty(heap[rr_chunks[p]]))

\* The output is the best min(top_k, m) of the m non-blank candidates: output
\* i is a copy of candidate f[i] with its score and the provenance marker,
\* scores descend, equal scores keep the input order, and no candidate left
\* out ranks before one that was returned.
RankedTopK ==
    LET nb == NonBlankPlaces
        m == Len(nb)
    IN  /\ Len(reranked) = Min(rr_top_k, m)
        /\ \A i \in 1..Len(reranked) : TrimmedNonEmpty(heap[reranked[i]])
        /\ \E f \in InjSeqs(1..m, Len(reranked)) :
              /\ \A i \in 1..Len(f) :
                    heap[reranked[i]] =
                        ("rerank_score" :> scores[f[i]]) @@ ("retrieval" :> "reranked")
                        @@ heap[rr_chunks[nb[f[i]]]]
              /\ \A i \in 1..(Len(f) - 1) :
                    \/ scores[f[i]] > scores[f[i + 1]]
                    \/ scores[f[i]] = scores[f[i + 1]] /\ f[i] < f[i + 1]
              /\ \A j \in (1..m) \ Range(f) : \A i \in 1..Len(f) :
                    \/ scores[j] < scores[f[i]]
                    \/ scores[j] = scores[f[i]] /\ j > f[i]

\* C11 as stated: for a non-empty query and top_k >= 1, rerank_chunks returns
\* exactly min(top_k, m) items, m the number of candidates whose text is
\* non-empty after trimming; they are the highest-scored of these in
\* descending order, equal scores in input order, and no blank candidate is
\* returned.
C11_RankedForNonEmptyQuery ==
    (rr_pc = "reranked" /\ rr_query # <<>> /\ rr_top_k >= 1) => RankedTopK

\* C11 amended: the same for a query that is non-empty after trimming; a
\* whitespace-only query returns [] at reranker.py:46-47.
C11_RankedForNonBlankQuery ==
    (rr_pc = "reranked" /\ ~WhitespaceOnly(rr_query) /\ rr_top_k >= 1) => RankedTopK

\* two non-blank candidates with equal scores, cut to the first by top_k = 1
C11_Witness ==
    /\ rr_pc = "reranked"
    /\ ~WhitespaceOnly(rr_query)
    /\ rr_top_k = 1
    /\ Len(NonBlankPlaces) = 2
    /\ scores[1] = scores[2]
    /\ Len(reranked) = 1
    /\ heap[reranked[1]]["chunk_id"] = heap[rr_chunks[1]]["chunk_id"]

\* C12: a call of retrieve_chunks or rerank_chunks leaves every entry of the
\* caller's chunks list and of the candidate list passed to rerank_chunks with
\* exactly the keys and values it had before the call, and the lists
\* themselves as they were: score, rerank_score and retrieval go to copies.
C12_CallsLeaveEntriesUnchanged ==
    [][(rr_pc = "idle" \/ rr_pc = "retrieved") =>
          /\ caller_chunks' = caller_chunks
          /\ rr_pc = "retrieved" => initial' = initial
          /\ \A id \in Range(caller_chunks) \cup Range(initial) : heap'[id] = heap[id]]_vars

\* retrieve_chunks and then rerank_chunks have both returned items, and the
\* caller's entries carry none of the three keys
C12_Witness ==
    /\ rr_pc = "reranked"
    /\ rr_chunks = initial
    /\ Len(initial) = Len(caller_chunks)
    /\ reranked # <<>>
    /\ \A i \in 1..Len(reranked) :
          {"score", "rerank_score", "retrieval"} \subseteq DOMAIN heap[reranked[i]]
    /\ \A i \in 1..Len(initial) :
          DOMAIN heap[initial[i]] = {"chunk_id", "document_id", "text", "score"}
    /\ \A i \in 1..Len(caller_chunks) :
          DOMAIN heap[caller_chunks[i]] = {"chunk_id", "document_id", "text"}

\* C20: for every integer top_k, 0 and negative values included,
\* rerank_chunks returns at most max(top_k, 0) items.
C20_AtMostTopK ==
    rr_pc = "reranked" => Len(reranked) <= Max(rr_top_k, 0)

\* ------------------------------------------- properties of the model getters
\* C13: under any interleaving of calls of get_embedder (respectively
\* get_reranker) from several threads, concurrent first calls included, the
\* model is constructed at most once and every call returns that one handle.
C13_ConstructedOnceSameHandle ==
    \A g \in Getters :
        /\ constructed[g] <= 1
        /\ \A t, u \in Threads :
              (t_pc[t] = "done" /\ t_pc[u] = "done" /\ t_fn[t] = g /\ t_fn[u] = g)
                  => t_ret[t] = t_ret[u]

\* ------------------------------------------ properties of the stored vectors
\* C14: every vector stored in an index built by the ingestion path has been
\* through the L2-normalization step before it was stored, as the query
\* vector has before the search, so that every returned inner-product score
\* is the cosine of query and row.
C14_StoredVectorsNormalized ==
    /\ \A i \in 1..Len(rows) : rows[i].l2
    /\ pl_pc = "searched" =>
          /\ q_vec.l2
          /\ \A i \in 1..Len(rows) : pl_scores[i] = Cos(q_vec.dir, rows[i].dir)

\* ------------------------------------ the short-chunk filter of chunk_text
\* C15: when segmentation produced more than one chunk, every returned chunk
\* has at least 5 tokens; when it produced exactly one chunk, that chunk is
\* returned whatever its length.
C15_ShortDroppedSingleKept ==
    cpc = "done" =>
        /\ Len(built) > 1 => \A i \in 1..Len(out) : Len(out[i].text) >= 5
        /\ Len(built) = 1 => Len(out) = 1 /\ out[1].text = built[1]

\* several chunks were built, a short one was dropped and another returned
C15_Witness ==
    /\ cpc = "done"
    /\ Len(built) > 1
    /\ \E i \in 1..Len(built) : Len(built[i]) < 5
    /\ out # <<>>
    /\ Len(out) < Len(built)

\* ------------------------------------------------- properties of clean_text
\* C16: clean_text removes nothing but non-ASCII characters and redundant
\* whitespace: the output is the input with the non-ASCII characters deleted,
\* each whitespace run collapsed to one space and leading and trailing
\* whitespace stripped; every other character is kept, in order.
C16_OnlyNonAsciiAndWhitespaceRemoved ==
    cl_pc = "done" => cl_text = Strip(CollapseWhitespace(AsciiOnly(cl_in)))

\* ------------------------------------------ progress of the force-split loop
\* C17: for every chunk_size and every integer overlap (negative, zero, or
\* >= chunk_size) the overlap used lies in [0, chunk_size - 1], the stride is
\* at least 1, every iteration of the force-split loop moves j forward from a
\* position inside the sentence, and the loop appends at most one block per
\* token: it ends after finitely many blocks.
C17_ClampedOverlapLoopAdvances ==
    sp_pc # "off" =>
        /\ sp_overlap \in 0..(sp_size - 1)
        /\ sp_stride >= 1
        /\ sp_j_before < sp_j
        /\ sp_j_before < Len(sp_tokens)
        /\ Len(sp_blocks) <= Len(sp_tokens)

\* an overlap of chunk_size or more was clamped and the loop has ended after
\* three or more blocks
C17_Witness ==
    /\ sp_pc = "exit"
    /\ sp_overlap_arg >= sp_size
    /\ sp_overlap = sp_size - 1
    /\ Len(sp_blocks) >= 3

\* --------------------------------------------- properties of the saved index
\* C18: whenever a saved index and saved chunk metadata have been restored
\* (after an interrupted Process run and after Reset as well), the pair placed
\* in session state has an index count equal to the number of chunks.
C18_RestoredCountsMatch ==
    restored => ss_index = ss_chunks

\* ------------------------------------------------ redundancy of chunk_text
\* C19: chunk_text never returns a redundant chunk: every returned chunk after
\* the first covers at least one source token position that the chunk before
\* it does not cover.  Stated for an overlap of 1 or more, where a seed is a
\* proper tail of the chunk before it.
C19_NoRedundantChunk ==
    (cpc = "done" /\ overlap >= 1) =>
        \A i \in 2..Len(out) : ~(Range(out[i].text) \subseteq Range(out[i - 1].text))

\* a quotient <<n, d>> with 0 <= n/d <= 1
InUnitInterval(q) == q[2] > 0 /\ 0 <= q[1] /\ q[1] <= q[2]

\* precision_at_k returned a value in [0, 1], its hits not above k
PrecisionBounded ==
    (m_pc = "returned" /\ m_fn = "precision_at_k") =>
        InUnitInterval(m_ret) /\ m_hits <= Max(m_k, 0)

\* recall_at_k returned a value in [0, 1], its hits not above the number of
\* relevant ids
RecallBounded ==
    (m_pc = "returned" /\ m_fn = "recall_at_k") =>
        InUnitInterval(m_ret) /\ m_hits <= Cardinality(m_relevant)

\* C21: for every retrieved_ids list (repeated ids included), every
\* relevant_ids set and every integer k, precision_at_k and recall_at_k return
\* a value between 0 and 1 inclusive: the hits counted never exceed k for
\* precision nor the number of relevant ids for recall.
C21_MetricsBetweenZeroAndOne == PrecisionBounded /\ RecallBounded

====
